---- MODULE Spec2Model ----
(***************************************************************************)
(* Chinese Restaurant Process mixture model (chinese_restaurant_no_log.js) *)
(* as a state machine: the inference state built by initialize_state and   *)
(* mutated by sample_table, with the two samplers (sample, log_sample) as  *)
(* operators.  Real numbers are exact rationals; the value of Math.log is  *)
(* carried as the rational it is the logarithm of, together with the       *)
(* decimal rendering (to six places) that Array.prototype.sort compares.   *)
(***************************************************************************)
EXTENDS Integers, Sequences, FiniteSets, TLC

\* ------------------------------------------------------------- bounds
\* Largest number of documents in a corpus.
MaxDocs == 2
\* Largest number of word tokens in a corpus (all documents together).
MaxTokens == 3
\* Largest number of completed sample_table calls in a run.
MaxCalls == 2
\* The uniform draws are k / UDen for k in 0 .. UDen - 1.
UDen == 4
\* Largest count of a word, and largest word total, of the table passed to
\* the word likelihoods.
MaxCount == 2
MaxWordTotal == 3
\* Candidate weights of the sampler specification are w / (MaxWeight + 1).
MaxWeight == 4
\* Largest n passed to sample_CRP.
MaxCustomers == 3

Words == {"a", "b"}
DocIDs == 1..MaxDocs

\* ------------------------------------------------------------- plain JS objects
EmptyMap == [k \in {} |-> 0]

MapPut(m, k, v) == [x \in DOMAIN m \cup {k} |-> IF x = k THEN v ELSE m[x]]

MapDelete(m, k) == [x \in DOMAIN m \ {k} |-> m[x]]

SetMin(S) == CHOOSE x \in S : \A y \in S : x <= y

\* The keys of an object with integer keys, in for-in order (ascending).
RECURSIVE KeysAscending(_)
KeysAscending(S) ==
    IF S = {} THEN <<>> ELSE <<SetMin(S)>> \o KeysAscending(S \ {SetMin(S)})

\* corpus[docID]: the word array, or undefined when docID is not a key.
\* Document IDs and words are ordinary keys: none is the name of a property
\* that every object inherits (toString, constructor, __proto__, ...).
Undefined == [defined |-> FALSE, val |-> <<>>]

Lookup(c, docID) ==
    IF docID \in DOMAIN c THEN [defined |-> TRUE, val |-> c[docID]] ELSE Undefined

\* ------------------------------------------------------------- numbers
RECURSIVE GCD(_, _)
GCD(a, b) == IF b = 0 THEN a ELSE GCD(b, a % b)

Abs(x) == IF x < 0 THEN -x ELSE x

\* The rational n / d in lowest terms with a positive denominator (d # 0).
Rat(n, d) ==
    LET g == GCD(Abs(n), Abs(d))
        s == IF d < 0 THEN -1 ELSE 1
    IN  [n |-> s * (n \div g), d |-> s * (d \div g)]

RatInt(k) == [n |-> k, d |-> 1]

RatAdd(x, y) == Rat(x.n * y.d + y.n * x.d, x.d * y.d)

RatSub(x, y) == Rat(x.n * y.d - y.n * x.d, x.d * y.d)

RatMul(x, y) == Rat(x.n * y.n, x.d * y.d)

RatDiv(x, y) == Rat(x.n * y.d, x.d * y.n)

\* x < y, compared over the least common denominator.
RatLess(x, y) ==
    LET g == GCD(x.d, y.d)
    IN  x.n * (y.d \div g) < y.n * (x.d \div g)

RatPositive(x) == x.n > 0

\* ------------------------------------------------------------- state
VARIABLES
    corpus,     \* the corpus argument of initialize_state
    alpha,      \* the alpha argument of initialize_state
    beta,       \* the beta argument of initialize_state
    state,      \* the inference state object
    calls,      \* completed sample_table calls so far
    issued,     \* the table IDs add_doc has materialised, in order
    last,       \* the last call: its arguments, what it read and returned
    trial,      \* inputs and results of one run of the two samplers
    crp,        \* inputs and result of one call of sample_CRP
    lik         \* inputs and results of one call of the two word likelihoods

vars == <<corpus, alpha, beta, state, calls, issued, last, trial, crp, lik>>

\* The object literal initialize_state starts from.
NewState(a, b) ==
    [assignments |-> EmptyMap,
     tables      |-> EmptyMap,
     total_docs  |-> 0,
     nextID      |-> 0,
     W           |-> 0,
     alpha       |-> a,
     beta        |-> b,
     vocab       |-> EmptyMap]

\* The table add_doc creates for an unknown ID.
NewTable == [num_docs |-> 0, num_words |-> 0, word_counts |-> EmptyMap]

\* ------------------------------------------------------------- add_doc
\* The counting loop of add_doc over words[i .. Len(words)].
RECURSIVE IncWords(_, _, _)
IncWords(word_counts, words, i) ==
    IF i > Len(words) THEN word_counts
    ELSE LET word == words[i]
         IN  IncWords(IF word \in DOMAIN word_counts
                      THEN [word_counts EXCEPT ![word] = @ + 1]
                      ELSE MapPut(word_counts, word, 1),
                      words, i + 1)

\* Whether add_doc materialises a table for tableID.
Creates(tableID, st) == tableID \notin DOMAIN st.tables

\* add_doc that replaces state.assignments by the one new entry.
add_doc_forget_others(docID, words, tableID, st) ==
    LET nextID1 == IF Creates(tableID, st) THEN st.nextID + 1 ELSE st.nextID
        tables1 == IF Creates(tableID, st)
                   THEN MapPut(st.tables, tableID, NewTable)
                   ELSE st.tables
        table   == tables1[tableID]
        table2  == [num_docs    |-> table.num_docs + 1,
                    num_words   |-> table.num_words + Len(words),
                    word_counts |-> IncWords(table.word_counts, words, 1)]
    IN  [st EXCEPT !.assignments = MapPut(EmptyMap, docID, tableID),
                   !.tables      = MapPut(tables1, tableID, table2),
                   !.nextID      = nextID1,
                   !.total_docs  = @ + 1]

\* add_doc with the nextID++ left out.
add_doc_no_advance(docID, words, tableID, st) ==
    LET tables1 == IF Creates(tableID, st)
                   THEN MapPut(st.tables, tableID, NewTable)
                   ELSE st.tables
        table   == tables1[tableID]
        table2  == [num_docs    |-> table.num_docs + 1,
                    num_words   |-> table.num_words + Len(words),
                    word_counts |-> IncWords(table.word_counts, words, 1)]
    IN  [st EXCEPT !.assignments = MapPut(@, docID, tableID),
                   !.tables      = MapPut(tables1, tableID, table2),
                   !.total_docs  = @ + 1]

\* add_doc with num_words left as it was.
add_doc_no_num_words(docID, words, tableID, st) ==
    LET nextID1 == IF Creates(tableID, st) THEN st.nextID + 1 ELSE st.nextID
        tables1 == IF Creates(tableID, st)
                   THEN MapPut(st.tables, tableID, NewTable)
                   ELSE st.tables
        table   == tables1[tableID]
        table2  == [num_docs    |-> table.num_docs + 1,
                    num_words   |-> table.num_words,
                    word_counts |-> IncWords(table.word_counts, words, 1)]
    IN  [st EXCEPT !.assignments = MapPut(@, docID, tableID),
                   !.nextID      = nextID1,
                   !.tables      = MapPut(tables1, tableID, table2),
                   !.total_docs  = @ + 1]

add_doc(docID, words, tableID, st) ==
    LET nextID1 == IF Creates(tableID, st) THEN st.nextID + 1 ELSE st.nextID
        tables1 == IF Creates(tableID, st)
                   THEN MapPut(st.tables, tableID, NewTable)
                   ELSE st.tables
        table   == tables1[tableID]
        table2  == [num_docs    |-> table.num_docs + 1,
                    num_words   |-> table.num_words + Len(words),
                    word_counts |-> IncWords(table.word_counts, words, 1)]
    IN  [st EXCEPT !.assignments = MapPut(@, docID, tableID),
                   !.nextID      = nextID1,
                   !.tables      = MapPut(tables1, tableID, table2),
                   !.total_docs  = @ + 1]

\* ------------------------------------------------------------- remove_doc
\* The loop of remove_doc without the deletion of a count that reached 0.
RECURSIVE DecWordsKeepZero(_, _, _)
DecWordsKeepZero(word_counts, words, i) ==
    IF i > Len(words) THEN word_counts
    ELSE DecWordsKeepZero([word_counts EXCEPT ![words[i]] = @ - 1], words, i + 1)

\* The loop of remove_doc over words[i .. Len(words)]: decrement, delete at 0.
RECURSIVE DecWords(_, _, _)
DecWords(word_counts, words, i) ==
    IF i > Len(words) THEN word_counts
    ELSE LET word == words[i]
             dec  == [word_counts EXCEPT ![word] = @ - 1]
         IN  DecWords(IF dec[word] = 0 THEN MapDelete(dec, word) ELSE dec,
                      words, i + 1)

\* remove_doc without the garbage collection of an emptied table.
remove_doc_no_gc(docID, words, st) ==
    IF ~words.defined THEN [state |-> st, threw |-> TRUE]
    ELSE
    LET tableID == st.assignments[docID]
        table   == st.tables[tableID]
        table2  == [num_docs    |-> table.num_docs - 1,
                    num_words   |-> table.num_words - Len(words.val),
                    word_counts |-> DecWords(table.word_counts, words.val, 1)]
    IN  [state |-> [st EXCEPT !.tables = MapPut(st.tables, tableID, table2)],
         threw |-> FALSE]

\* remove_doc with table.num_docs-- moved above the loop that reads words.length.
remove_doc_early_decrement(docID, words, st) ==
    LET tableID == st.assignments[docID]
        table   == st.tables[tableID]
        early   == [table EXCEPT !.num_docs = @ - 1]
    IN  IF ~words.defined
        THEN [state |-> [st EXCEPT !.tables = MapPut(st.tables, tableID, early)],
              threw |-> TRUE]
        ELSE LET table2 == [num_docs    |-> early.num_docs,
                            num_words   |-> table.num_words - Len(words.val),
                            word_counts |-> DecWords(table.word_counts, words.val, 1)]
             IN  [state |-> [st EXCEPT !.tables =
                                IF table2.num_docs = 0
                                THEN MapDelete(st.tables, tableID)
                                ELSE MapPut(st.tables, tableID, table2)],
                  threw |-> FALSE]

\* remove_doc(docID, words, state) for a docID in state.assignments.  Reading
\* words.length of an undefined words throws before anything is written.
\* total_docs is not written.
remove_doc(docID, words, st) ==
    IF ~words.defined THEN [state |-> st, threw |-> TRUE]
    ELSE
    LET tableID == st.assignments[docID]
        table   == st.tables[tableID]
        table2  == [num_docs    |-> table.num_docs - 1,
                    num_words   |-> table.num_words - Len(words.val),
                    word_counts |-> DecWords(table.word_counts, words.val, 1)]
    IN  [state |-> [st EXCEPT !.tables =
                       IF table2.num_docs = 0
                       THEN MapDelete(st.tables, tableID)
                       ELSE MapPut(st.tables, tableID, table2)],
         threw |-> FALSE]

\* ------------------------------------------------------------- initialize_state
\* CountVocab that counts every token, not every distinct token.
RECURSIVE CountVocabTokens(_, _, _)
CountVocabTokens(st, words, i) ==
    IF i > Len(words) THEN st
    ELSE LET word == words[i]
         IN  CountVocabTokens(IF word \in DOMAIN st.vocab
                              THEN [st EXCEPT !.W = @ + 1,
                                              !.vocab = [@ EXCEPT ![word] = @ + 1]]
                              ELSE [st EXCEPT !.W = @ + 1,
                                              !.vocab = MapPut(@, word, 1)],
                              words, i + 1)

\* The inner loop of initialize_state over words[i .. Len(words)].
RECURSIVE CountVocab(_, _, _)
CountVocab(st, words, i) ==
    IF i > Len(words) THEN st
    ELSE LET word == words[i]
         IN  CountVocab(IF word \in DOMAIN st.vocab
                        THEN [st EXCEPT !.vocab = [@ EXCEPT ![word] = @ + 1]]
                        ELSE [st EXCEPT !.W = @ + 1,
                                        !.vocab = MapPut(@, word, 1)],
                        words, i + 1)

\* One iteration of the document loop of initialize_state.
InitDoc(st, docID, words) ==
    add_doc(docID, words, st.nextID, CountVocab(st, words, 1))

\* The state after the first k documents of the loop (keys in for-in order).
RECURSIVE InitLoop(_, _, _, _)
InitLoop(c, a, b, k) ==
    IF k = 0 THEN NewState(a, b)
    ELSE LET docID == KeysAscending(DOMAIN c)[k]
         IN  InitDoc(InitLoop(c, a, b, k - 1), docID, c[docID])

initialize_state(c, a, b) == InitLoop(c, a, b, Cardinality(DOMAIN c))

\* The table IDs materialised by the first k iterations, in order.
RECURSIVE InitIssued(_, _, _, _)
InitIssued(c, a, b, k) ==
    IF k = 0 THEN <<>>
    ELSE LET before == InitLoop(c, a, b, k - 1)
         IN  IF Creates(before.nextID, before)
             THEN Append(InitIssued(c, a, b, k - 1), before.nextID)
             ELSE InitIssued(c, a, b, k - 1)

\* ------------------------------------------------------------- Math.log, Math.exp
\* Math.log(n) for n = 1 .. 64, in millionths, rounded.
LnMicroTable ==
    <<0, 693147, 1098612, 1386294, 1609438, 1791759, 1945910, 2079442,
      2197225, 2302585, 2397895, 2484907, 2564949, 2639057, 2708050, 2772589,
      2833213, 2890372, 2944439, 2995732, 3044522, 3091042, 3135494, 3178054,
      3218876, 3258097, 3295837, 3332205, 3367296, 3401197, 3433987, 3465736,
      3496508, 3526361, 3555348, 3583519, 3610918, 3637586, 3663562, 3688879,
      3713572, 3737670, 3761200, 3784190, 3806662, 3828641, 3850148, 3871201,
      3891820, 3912023, 3931826, 3951244, 3970292, 3988984, 4007333, 4025352,
      4043051, 4060443, 4077537, 4094345, 4110874, 4127134, 4143135, 4158883>>

LnMicro(n) == LnMicroTable[n]

\* The number of millionths in one.
Micro == 10 ^ 6

\* A logarithm: the positive rational it is the logarithm of (so that Math.exp
\* of a difference is exact) and its value in millionths (what is printed).
MathLog(r) == [of |-> r, micro |-> LnMicro(r.n) - LnMicro(r.d)]

LogZero == [of |-> RatInt(1), micro |-> 0]

LogAdd(x, y) == [of |-> RatMul(x.of, y.of), micro |-> x.micro + y.micro]

\* Math.exp(x - max)
MathExpDiff(x, max) == RatDiv(x.of, max.of)

\* ------------------------------------------------------------- likelihood engine
\* log_prob_table(count, total, alpha)
log_prob_table(count, total, a) ==
    IF count # 0
    THEN MathLog(RatDiv(RatInt(count), RatAdd(RatInt(total), a)))
    ELSE MathLog(RatDiv(a, RatAdd(RatInt(total), a)))

\* prob_of_table(count, total, alpha)
prob_of_table(count, total, a) ==
    IF count # 0
    THEN RatDiv(RatInt(count), RatAdd(RatInt(total), a))
    ELSE RatDiv(a, RatAdd(RatInt(total), a))

\* The ratio of position j without the occurrences earlier in the document.
WordRatioNoLocal(local_count, count, j, word_total, b, W) ==
    RatDiv(RatAdd(RatInt(count), b),
           RatAdd(RatInt(j + word_total), RatMul(RatInt(W), b)))

\* The ratio of position j (0-based) in both word-likelihood loops.
WordRatio(local_count, count, j, word_total, b, W) ==
    RatDiv(RatAdd(RatInt(local_count + count), b),
           RatAdd(RatInt(j + word_total), RatMul(RatInt(W), b)))

\* The loop of log_prob_words_given_table from position j (0-based) on.
RECURSIVE LogWordsLoop(_, _, _, _, _, _, _, _)
LogWordsLoop(words, word_counts, word_total, b, W, j, local_counts, log_prob) ==
    IF j >= Len(words) THEN log_prob
    ELSE LET word        == words[j + 1]
             count       == IF word \in DOMAIN word_counts
                            THEN word_counts[word] ELSE 0
             local_count == IF word \in DOMAIN local_counts
                            THEN local_counts[word] ELSE 0
             local2      == IF word \in DOMAIN local_counts
                            THEN [local_counts EXCEPT ![word] = @ + 1]
                            ELSE MapPut(local_counts, word, 1)
         IN  LogWordsLoop(words, word_counts, word_total, b, W, j + 1, local2,
                 LogAdd(log_prob,
                        MathLog(WordRatio(local_count, count, j, word_total, b, W))))

log_prob_words_given_table(words, word_counts, word_total, b, W) ==
    LogWordsLoop(words, word_counts, word_total, b, W, 0, EmptyMap, LogZero)

\* The loop of prob_of_words_given_table from position j (0-based) on.
RECURSIVE WordsLoop(_, _, _, _, _, _, _, _)
WordsLoop(words, word_counts, word_total, b, W, j, local_counts, prob) ==
    IF j >= Len(words) THEN prob
    ELSE LET word        == words[j + 1]
             count       == IF word \in DOMAIN word_counts
                            THEN word_counts[word] ELSE 0
             local_count == IF word \in DOMAIN local_counts
                            THEN local_counts[word] ELSE 0
             local2      == IF word \in DOMAIN local_counts
                            THEN [local_counts EXCEPT ![word] = @ + 1]
                            ELSE MapPut(local_counts, word, 1)
         IN  WordsLoop(words, word_counts, word_total, b, W, j + 1, local2,
                 RatMul(prob, WordRatio(local_count, count, j, word_total, b, W)))

prob_of_words_given_table(words, word_counts, word_total, b, W) ==
    WordsLoop(words, word_counts, word_total, b, W, 0, EmptyMap, RatInt(1))

\* ------------------------------------------------------------- Array.prototype.sort
\* Strings are sequences of UTF-16 code units: "," 44, "-" 45, "." 46, "0" 48.
RECURSIVE Digits(_)
Digits(n) ==
    IF n < 10 THEN <<48 + n>> ELSE Append(Digits(n \div 10), 48 + (n % 10))

\* The digits after the point of f millionths (0 < f < Micro), scale = Micro \div 10.
RECURSIVE FracDigits(_, _)
FracDigits(f, scale) ==
    IF f = 0 THEN <<>>
    ELSE <<48 + (f \div scale)>> \o FracDigits(f % scale, scale \div 10)

\* String(x) of the number x given in millionths.
NumberToString(micro) ==
    LET a == Abs(micro)
    IN  (IF micro < 0 THEN <<45>> ELSE <<>>)
        \o Digits(a \div Micro)
        \o (IF a % Micro = 0 THEN <<>>
            ELSE <<46>> \o FracDigits(a % Micro, Micro \div 10))

\* String([log, tableID]): the elements joined by ",".
ElementToString(e) == NumberToString(e[1].micro) \o <<44>> \o Digits(e[2])

\* s < t for strings, by code units.
RECURSIVE StringLess(_, _)
StringLess(s, t) ==
    IF t = <<>> THEN FALSE
    ELSE IF s = <<>> THEN TRUE
    ELSE IF s[1] # t[1] THEN s[1] < t[1]
    ELSE StringLess(Tail(s), Tail(t))

\* e put into the sorted array arr, after the elements not greater than it.
RECURSIVE SortInsert(_, _)
SortInsert(arr, e) ==
    IF arr = <<>> THEN <<e>>
    ELSE IF StringLess(ElementToString(e), ElementToString(arr[1]))
         THEN <<e>> \o arr
         ELSE <<arr[1]>> \o SortInsert(Tail(arr), e)

\* arr.sort() with no comparator: ascending by the elements' strings, stable.
RECURSIVE ArraySort(_)
ArraySort(arr) ==
    IF arr = <<>> THEN <<>>
    ELSE SortInsert(ArraySort(SubSeq(arr, 1, Len(arr) - 1)), arr[Len(arr)])

\* ------------------------------------------------------------- samplers
\* The sum of arr[k][1] mapped by Math.exp(. - max), for k = 1 .. i.
RECURSIVE SumOfExp(_, _, _)
SumOfExp(arr, max, i) ==
    IF i = 0 THEN RatInt(0)
    ELSE RatAdd(SumOfExp(arr, max, i - 1), MathExpDiff(arr[i][1], max))

\* var max = log_un_ps[0][0], read from the array as sort() left it.
log_sample_max(sorted) == sorted[1][1]

\* log_sample(log_un_ps) with Math.random() = random, 0 <= random < 1.
\* log_cumulative_prob > Math.log(random), that is
\* max + log(sum_of_exp) - (max + log(sum)) > log(random), holds exactly when
\* sum_of_exp > random * sum (log increases, and log(0) is -Infinity).
log_sample(log_un_ps, random) ==
    LET sorted == ArraySort(log_un_ps)
        max    == log_sample_max(sorted)
        sum    == SumOfExp(sorted, max, Len(sorted))
        hits   == {i \in 1..Len(sorted) :
                      RatLess(RatMul(random, sum), SumOfExp(sorted, max, i))}
    IN  IF hits # {} THEN sorted[SetMin(hits)][2] ELSE sorted[Len(sorted)][2]

\* The sum of the probabilities of keys[1 .. i].
RECURSIVE SumOfProbs(_, _, _)
SumOfProbs(probs, keys, i) ==
    IF i = 0 THEN RatInt(0)
    ELSE RatAdd(SumOfProbs(probs, keys, i - 1), probs[keys[i]])

\* sample returning at a threshold of 0 as well as below 0.
sample_at_zero(unnormalized_probabilities, random) ==
    LET keys      == KeysAscending(DOMAIN unnormalized_probabilities)
        sum       == SumOfProbs(unnormalized_probabilities, keys, Len(keys))
        threshold == RatMul(random, sum)
        hits      == {i \in 1..Len(keys) :
                         ~RatLess(RatInt(0),
                                  RatSub(threshold,
                                         SumOfProbs(unnormalized_probabilities, keys, i)))}
    IN  IF hits # {} THEN keys[SetMin(hits)] ELSE keys[Len(keys)]

\* sample(unnormalized_probabilities) with Math.random() = random: the keys are
\* walked in for-in order, the first one to take the threshold below 0 returns.
sample(unnormalized_probabilities, random) ==
    LET keys      == KeysAscending(DOMAIN unnormalized_probabilities)
        sum       == SumOfProbs(unnormalized_probabilities, keys, Len(keys))
        threshold == RatMul(random, sum)
        hits      == {i \in 1..Len(keys) :
                         RatLess(RatSub(threshold,
                                        SumOfProbs(unnormalized_probabilities, keys, i)),
                                 RatInt(0))}
    IN  IF hits # {} THEN keys[SetMin(hits)] ELSE keys[Len(keys)]

\* ------------------------------------------------------------- sample_CRP
\* One iteration of sample_CRP whose new table takes the key i + 1.
CRPStepOneBased(counts, i, a, random) ==
    LET occupied      == [t \in DOMAIN counts |-> prob_of_table(counts[t], i, a)]
        table_probs   == MapPut(occupied, i + 1, prob_of_table(0, i, a))
        sampled_table == sample(table_probs, random)
    IN  IF sampled_table \in DOMAIN counts
        THEN [counts EXCEPT ![sampled_table] = @ + 1]
        ELSE MapPut(counts, sampled_table, 1)

\* One iteration of sample_CRP that sets the count to 1 in both branches.
CRPStepNoIncrement(counts, i, a, random) ==
    LET occupied      == [t \in DOMAIN counts |-> prob_of_table(counts[t], i, a)]
        table_probs   == MapPut(occupied, i, prob_of_table(0, i, a))
        sampled_table == sample(table_probs, random)
    IN  MapPut(counts, sampled_table, 1)

\* One iteration of the loop of sample_CRP: customer i, Math.random() = random.
CRPStep(counts, i, a, random) ==
    LET occupied      == [t \in DOMAIN counts |-> prob_of_table(counts[t], i, a)]
        table_probs   == MapPut(occupied, i, prob_of_table(0, i, a))
        sampled_table == sample(table_probs, random)
    IN  IF sampled_table \in DOMAIN counts
        THEN [counts EXCEPT ![sampled_table] = @ + 1]
        ELSE MapPut(counts, sampled_table, 1)

\* counts after customers 0 .. i - 1, customer k drawing randoms[k + 1].
RECURSIVE CRPLoop(_, _, _)
CRPLoop(i, a, randoms) ==
    IF i = 0 THEN EmptyMap
    ELSE CRPStep(CRPLoop(i - 1, a, randoms), i - 1, a, randoms[i])

\* module.sample_CRP(n, alpha)
sample_CRP(n, a, randoms) == CRPLoop(n, a, randoms)

\* ------------------------------------------------------------- sample_table
\* The entry sample_table pushes for an occupied table.
TableEntry(words, tableID, st) ==
    LET table == st.tables[tableID]
        lpt   == log_prob_table(table.num_docs, st.total_docs, st.alpha)
        lpw   == log_prob_words_given_table(words, table.word_counts,
                                            table.num_words, st.beta, st.W)
    IN  <<LogAdd(lpt, lpw), tableID>>

\* An entry for an unoccupied table that names the ID after nextID.
NewTableEntryAfterNext(words, st) ==
    LET lpt == log_prob_table(0, st.total_docs, st.alpha)
        lpw == log_prob_words_given_table(words, EmptyMap, 0, st.beta, st.W)
    IN  <<LogAdd(lpt, lpw), st.nextID + 1>>

\* The entry sample_table pushes for an unoccupied table.
NewTableEntry(words, st) ==
    LET lpt == log_prob_table(0, st.total_docs, st.alpha)
        lpw == log_prob_words_given_table(words, EmptyMap, 0, st.beta, st.W)
    IN  <<LogAdd(lpt, lpw), st.nextID>>

\* log_un_ps as sample_table builds it: the tables in for-in order, then nextID.
BuildLogUnPs(words, st) ==
    LET keys == KeysAscending(DOMAIN st.tables)
    IN  [i \in 1..Len(keys) |-> TableEntry(words, keys[i], st)]
        \o <<NewTableEntry(words, st)>>

\* What a call that threw leaves behind.
Thrown(st) ==
    [state |-> st, threw |-> TRUE, total |-> st.total_docs,
     seen |-> EmptyMap, candidates |-> <<>>, tableID |-> -1,
     created |-> FALSE]

\* sample_table computing the weights before the removal of a seated document.
sample_table_weights_first(docID, c, st, random) ==
    LET words     == Lookup(c, docID)
        log_un_ps == BuildLogUnPs(words.val, st)
        tableID   == log_sample(log_un_ps, random)
        removed   == IF docID \in DOMAIN st.assignments
                     THEN remove_doc(docID, words, st)
                     ELSE [state |-> st, threw |-> FALSE]
        st1       == removed.state
    IN  IF removed.threw \/ ~words.defined THEN Thrown(st1)
        ELSE [state      |-> add_doc(docID, words.val, tableID, st1),
              threw      |-> FALSE,
              total      |-> st.total_docs,
              seen       |-> st.tables,
              candidates |-> [i \in 1..Len(log_un_ps) |-> log_un_ps[i][2]],
              tableID    |-> tableID,
              created    |-> Creates(tableID, st1)]

\* sample_table without the removal of a seated document.
sample_table_no_remove(docID, c, st, random) ==
    LET words == Lookup(c, docID)
    IN  IF ~words.defined THEN Thrown(st)
        ELSE LET log_un_ps == BuildLogUnPs(words.val, st)
                 tableID   == log_sample(log_un_ps, random)
             IN  [state      |-> add_doc(docID, words.val, tableID, st),
                  threw      |-> FALSE,
                  total      |-> st.total_docs,
                  seen       |-> st.tables,
                  candidates |-> [i \in 1..Len(log_un_ps) |-> log_un_ps[i][2]],
                  tableID    |-> tableID,
                  created    |-> Creates(tableID, st)]

\* crpmm.sample_table(docID, corpus, state) with Math.random() = random.
\* With corpus[docID] undefined the first read of words.length throws: in
\* remove_doc, or else in log_prob_words_given_table.
sample_table(docID, c, st, random) ==
    LET words   == Lookup(c, docID)
        removed == IF docID \in DOMAIN st.assignments
                   THEN remove_doc(docID, words, st)
                   ELSE [state |-> st, threw |-> FALSE]
        st1     == removed.state
    IN  IF removed.threw \/ ~words.defined THEN Thrown(st1)
        ELSE LET log_un_ps == BuildLogUnPs(words.val, st1)
                 tableID   == log_sample(log_un_ps, random)
             IN  [state      |-> add_doc(docID, words.val, tableID, st1),
                  threw      |-> FALSE,
                  total      |-> st1.total_docs,
                  seen       |-> st1.tables,
                  candidates |-> [i \in 1..Len(log_un_ps) |-> log_un_ps[i][2]],
                  tableID    |-> tableID,
                  created    |-> Creates(tableID, st1)]

\* unnormalized_probabilities as module.sample_table builds it: an entry for
\* each table, then the entry of nextID.
BuildProbs(words, st) ==
    LET occupied ==
            [t \in DOMAIN st.tables |->
                RatMul(prob_of_table(st.tables[t].num_docs, st.total_docs, st.alpha),
                       prob_of_words_given_table(words, st.tables[t].word_counts,
                           st.tables[t].num_words, st.beta, st.W))]
        p_o_t == prob_of_table(0, st.total_docs, st.alpha)
        p_o_w == prob_of_words_given_table(words, EmptyMap, 0, st.beta, st.W)
    IN  MapPut(occupied, st.nextID, RatMul(p_o_t, p_o_w))

\* module.sample_table(docID, corpus, state) of the linear module, with
\* Math.random() = random; candidates are the keys in the order sample walks.
module_sample_table(docID, c, st, random) ==
    LET words   == Lookup(c, docID)
        removed == IF docID \in DOMAIN st.assignments
                   THEN remove_doc(docID, words, st)
                   ELSE [state |-> st, threw |-> FALSE]
        st1     == removed.state
    IN  IF removed.threw \/ ~words.defined THEN Thrown(st1)
        ELSE LET unnormalized_probabilities == BuildProbs(words.val, st1)
                 tableID == sample(unnormalized_probabilities, random)
             IN  [state      |-> add_doc(docID, words.val, tableID, st1),
                  threw      |-> FALSE,
                  total      |-> st1.total_docs,
                  seen       |-> st1.tables,
                  candidates |-> KeysAscending(DOMAIN unnormalized_probabilities),
                  tableID    |-> tableID,
                  created    |-> Creates(tableID, st1)]

\* ------------------------------------------------------------- inputs
RECURSIVE TotalLen(_, _)
TotalLen(c, k) == IF k = 0 THEN 0 ELSE Len(c[k]) + TotalLen(c, k - 1)

WordSeqs == UNION {[1..n -> Words] : n \in 0..MaxTokens}

\* The corpora: documents 1 .. k, at most MaxTokens word tokens in all.
Corpora ==
    {c \in UNION {[1..k -> WordSeqs] : k \in 0..MaxDocs} :
        TotalLen(c, Cardinality(DOMAIN c)) <= MaxTokens}


\* The values of Math.random().
Draws == {Rat(k, UDen) : k \in 0..(UDen - 1)}

\* Hyperparameters a caller may pass to initialize_state.
Hyper == {Rat(-1, 1), Rat(0, 1), Rat(1, 2), Rat(1, 1)}

NoCall ==
    [op |-> "none", docID |-> 0, present |-> FALSE, oldTable |-> -1,
     threw |-> FALSE, total |-> 0, seen |-> EmptyMap, candidates |-> <<>>,
     tableID |-> -1, created |-> FALSE]

\* alpha of sample_CRP.
CRPAlphas == {Rat(1, 2), Rat(1, 1), Rat(2, 1)}

NoCRP ==
    [n |-> 0, alpha |-> RatInt(1), randoms |-> <<>>, ran |-> FALSE,
     counts |-> EmptyMap]

\* The word_counts objects passed to the word likelihoods.
WordCounts == UNION {[S -> 1..MaxCount] : S \in SUBSET Words}

\* beta and W passed to the word likelihoods.
LikBetas == {Rat(1, 2), Rat(1, 1)}
LikW == 1..Cardinality(Words)

NoLik ==
    [words |-> <<>>, word_counts |-> EmptyMap, word_total |-> 0,
     beta |-> RatInt(1), W |-> 1, ran |-> FALSE,
     prob |-> RatInt(1), log_prob |-> LogZero]

NoTrial ==
    [probs |-> EmptyMap, random |-> RatInt(0), ran |-> FALSE,
     linear |-> -1, log |-> -1, logs |-> <<>>, max |-> LogZero]

\* ------------------------------------------------------------- actions
\* state = crpmm.initialize_state(corpus, alpha, beta)
Initialize ==
    /\ last.op = "none"
    /\ state' = initialize_state(corpus, alpha, beta)
    /\ issued' = InitIssued(corpus, alpha, beta, Cardinality(DOMAIN corpus))
    /\ last' = [NoCall EXCEPT !.op = "initialize_state"]
    /\ UNCHANGED <<corpus, alpha, beta, calls, trial, crp, lik>>

\* crpmm.sample_table(docID, c, state), c being the corpus or the corpus
\* without docID.  Nothing catches what sample_table throws: the run ends there.
SampleTable(docID, c, random) ==
    /\ last.op # "none"
    /\ ~last.threw
    /\ calls < MaxCalls
    /\ \E r \in {sample_table(docID, c, state, random)} :
           /\ state' = r.state
           /\ calls' = IF r.threw THEN calls ELSE calls + 1
           /\ issued' = IF r.created THEN Append(issued, r.tableID) ELSE issued
           /\ last' = [op |-> "sample_table", docID |-> docID,
                       present |-> docID \in DOMAIN c,
                       oldTable |-> IF docID \in DOMAIN state.assignments
                                    THEN state.assignments[docID] ELSE -1,
                       threw |-> r.threw, total |-> r.total,
                       seen |-> r.seen,
                       candidates |-> r.candidates, tableID |-> r.tableID,
                       created |-> r.created]
    /\ UNCHANGED <<corpus, alpha, beta, trial, crp, lik>>

\* The log-weights of the probabilities, as sample_table would push them.
LogsOf(probs) ==
    LET keys == KeysAscending(DOMAIN probs)
    IN  [i \in 1..Len(keys) |-> <<MathLog(probs[keys[i]]), keys[i]>>]

\* sample and log_sample on the same candidates and the same draw.
RunSamplers ==
    /\ ~trial.ran
    /\ trial' = [trial EXCEPT !.ran = TRUE,
                              !.linear = sample(trial.probs, trial.random),
                              !.log = log_sample(LogsOf(trial.probs), trial.random)]
    /\ UNCHANGED <<corpus, alpha, beta, state, calls, issued, last, crp, lik>>

\* ------------------------------------------------------------- specifications
Init ==
    /\ corpus \in Corpora
    /\ alpha = Rat(1, 1)
    /\ beta = Rat(1, 2)
    /\ state = NewState(alpha, beta)
    /\ calls = 0
    /\ issued = <<>>
    /\ last = NoCall
    /\ trial = NoTrial
    /\ crp = NoCRP
    /\ lik = NoLik

Next ==
    \/ Initialize
    \/ \E docID \in DocIDs, random \in Draws :
          \E c \in {corpus, MapDelete(corpus, docID)} :
             SampleTable(docID, c, random)

Spec == Init /\ [][Next]_vars

\* initialize_state alone, on any hyperparameters.
InitHyper ==
    /\ corpus \in Corpora
    /\ alpha \in Hyper
    /\ beta \in Hyper
    /\ state = NewState(alpha, beta)
    /\ calls = 0
    /\ issued = <<>>
    /\ last = NoCall
    /\ trial = NoTrial
    /\ crp = NoCRP
    /\ lik = NoLik

NextHyper == Initialize

SpecHyper == InitHyper /\ [][NextHyper]_vars

\* The two samplers alone: candidates 0 .. k - 1 with weights w / (MaxWeight + 1).
TrialProbs ==
    UNION {[0..(k - 1) -> {Rat(w, MaxWeight + 1) : w \in 1..MaxWeight}] :
              k \in 1..(MaxDocs + 1)}

InitSamplers ==
    /\ corpus = EmptyMap
    /\ alpha = Rat(1, 1)
    /\ beta = Rat(1, 2)
    /\ state = NewState(alpha, beta)
    /\ calls = 0
    /\ issued = <<>>
    /\ last = NoCall
    /\ \E probs \in TrialProbs, random \in Draws :
          trial = [NoTrial EXCEPT !.probs = probs, !.random = random]
    /\ crp = NoCRP
    /\ lik = NoLik

NextSamplers == RunSamplers

SpecSamplers == InitSamplers /\ [][NextSamplers]_vars

\* sample_CRP alone: n customers, one draw each.
RunCRP ==
    /\ ~crp.ran
    /\ crp' = [crp EXCEPT !.ran = TRUE,
                          !.counts = sample_CRP(crp.n, crp.alpha, crp.randoms)]
    /\ UNCHANGED <<corpus, alpha, beta, state, calls, issued, last, trial, lik>>

InitCRP ==
    /\ corpus = EmptyMap
    /\ alpha = Rat(1, 1)
    /\ beta = Rat(1, 2)
    /\ state = NewState(alpha, beta)
    /\ calls = 0
    /\ issued = <<>>
    /\ last = NoCall
    /\ trial = NoTrial
    /\ \E n \in 0..MaxCustomers, a \in CRPAlphas :
          \E randoms \in [1..n -> Draws] :
             crp = [NoCRP EXCEPT !.n = n, !.alpha = a, !.randoms = randoms]
    /\ lik = NoLik

NextCRP == RunCRP

SpecCRP == InitCRP /\ [][NextCRP]_vars

\* module.sample_table(docID, c, state) of the linear module.
ModuleSampleTable(docID, c, random) ==
    /\ last.op # "none"
    /\ ~last.threw
    /\ calls < MaxCalls
    /\ \E r \in {module_sample_table(docID, c, state, random)} :
           /\ state' = r.state
           /\ calls' = IF r.threw THEN calls ELSE calls + 1
           /\ issued' = IF r.created THEN Append(issued, r.tableID) ELSE issued
           /\ last' = [op |-> "module.sample_table", docID |-> docID,
                       present |-> docID \in DOMAIN c,
                       oldTable |-> IF docID \in DOMAIN state.assignments
                                    THEN state.assignments[docID] ELSE -1,
                       threw |-> r.threw, total |-> r.total,
                       seen |-> r.seen,
                       candidates |-> r.candidates, tableID |-> r.tableID,
                       created |-> r.created]
    /\ UNCHANGED <<corpus, alpha, beta, trial, crp, lik>>

\* sample alone, on weights that may be zero.
RunSample ==
    /\ trial.probs # EmptyMap
    /\ ~trial.ran
    /\ trial' = [trial EXCEPT !.ran = TRUE,
                              !.linear = sample(trial.probs, trial.random)]
    /\ UNCHANGED <<corpus, alpha, beta, state, calls, issued, last, crp, lik>>

\* Candidates 0 .. k - 1 with weights w / (MaxWeight + 1), zero included.
LinearTrialProbs ==
    UNION {[0..(k - 1) -> {Rat(w, MaxWeight + 1) : w \in 0..MaxWeight}] :
              k \in 1..(MaxDocs + 1)}

\* The linear module: either a corpus to run module.sample_table on, or
\* weights and a draw to run sample on.
InitLinear ==
    /\ alpha = Rat(1, 1)
    /\ beta = Rat(1, 2)
    /\ state = NewState(alpha, beta)
    /\ calls = 0
    /\ issued = <<>>
    /\ last = NoCall
    /\ crp = NoCRP
    /\ lik = NoLik
    /\ \/ corpus \in Corpora /\ trial = NoTrial
       \/ /\ corpus = EmptyMap
          /\ \E probs \in LinearTrialProbs, random \in Draws :
                trial = [NoTrial EXCEPT !.probs = probs, !.random = random]

NextLinear ==
    \/ Initialize
    \/ \E docID \in DocIDs, random \in Draws :
          \E c \in {corpus, MapDelete(corpus, docID)} :
             ModuleSampleTable(docID, c, random)
    \/ RunSample

SpecLinear == InitLinear /\ [][NextLinear]_vars

\* log_sample alone, on a list of log-weights; max is the value of its
\* variable max.
RunLogSample ==
    /\ trial.logs # <<>>
    /\ ~trial.ran
    /\ trial' = [trial EXCEPT !.ran = TRUE,
                              !.log = log_sample(trial.logs, trial.random),
                              !.max = log_sample_max(ArraySort(trial.logs))]
    /\ UNCHANGED <<corpus, alpha, beta, state, calls, issued, last, crp, lik>>

\* Math.log(2 ^ -15) = -10.397208
LogOfTiny == [of |-> Rat(1, 2 ^ 15), micro |-> -10397208]

\* The log-weights of the lists passed to log_sample: 0, -0.693147, -2.079442
\* and -10.397208.
LogWeights == {MathLog(Rat(1, 1)), MathLog(Rat(1, 2)), MathLog(Rat(1, 8)), LogOfTiny}

\* The lists [[log-weight, tableID], ...] of candidates 0 .. k - 1.
LogLists ==
    UNION {{[i \in 1..k |-> <<f[i], i - 1>>] : f \in [1..k -> LogWeights]} :
              k \in 1..(MaxDocs + 1)}

InitLogSample ==
    /\ corpus = EmptyMap
    /\ alpha = Rat(1, 1)
    /\ beta = Rat(1, 2)
    /\ state = NewState(alpha, beta)
    /\ calls = 0
    /\ issued = <<>>
    /\ last = NoCall
    /\ crp = NoCRP
    /\ lik = NoLik
    /\ \E logs \in LogLists, random \in Draws :
          trial = [NoTrial EXCEPT !.logs = logs, !.random = random]

NextLogSample == RunLogSample

SpecLogSample == InitLogSample /\ [][NextLogSample]_vars

\* prob_of_words_given_table and log_prob_words_given_table alone, on the same
\* arguments.
RunLikelihoods ==
    /\ ~lik.ran
    /\ lik' = [lik EXCEPT
                 !.ran = TRUE,
                 !.prob = prob_of_words_given_table(lik.words, lik.word_counts,
                              lik.word_total, lik.beta, lik.W),
                 !.log_prob = log_prob_words_given_table(lik.words, lik.word_counts,
                                  lik.word_total, lik.beta, lik.W)]
    /\ UNCHANGED <<corpus, alpha, beta, state, calls, issued, last, trial, crp>>

InitLikelihoods ==
    /\ corpus = EmptyMap
    /\ alpha = Rat(1, 1)
    /\ beta = Rat(1, 2)
    /\ state = NewState(alpha, beta)
    /\ calls = 0
    /\ issued = <<>>
    /\ last = NoCall
    /\ trial = NoTrial
    /\ crp = NoCRP
    /\ \E words \in WordSeqs, word_counts \in WordCounts,
          word_total \in 0..MaxWordTotal, b \in LikBetas, W \in LikW :
          lik = [NoLik EXCEPT !.words = words, !.word_counts = word_counts,
                              !.word_total = word_total, !.beta = b, !.W = W]

NextLikelihoods == RunLikelihoods

SpecLikelihoods == InitLikelihoods /\ [][NextLikelihoods]_vars

\* ------------------------------------------------------------- properties
\* The sum of f[x] over x in S.
RECURSIVE SumOf(_, _)
SumOf(f, S) ==
    IF S = {} THEN 0
    ELSE LET x == CHOOSE y \in S : TRUE IN f[x] + SumOf(f, S \ {x})

SumAll(f) == SumOf(f, DOMAIN f)

Occurrences(words, w) == Cardinality({i \in 1..Len(words) : words[i] = w})

\* The word multiset of a document, as a word_counts object.
Multiset(words) ==
    [w \in {words[i] : i \in 1..Len(words)} |-> Occurrences(words, w)]

Initialized == last.op # "none"

\* A sample_table call has just run to completion.
Reseated == last.op = "sample_table" /\ ~last.threw

NumDocsOf(tables) == [t \in DOMAIN tables |-> tables[t].num_docs]

NumWordsOf(tables) == [t \in DOMAIN tables |-> tables[t].num_words]

\* C1: after initialize_state and after any completed sample_table calls,
\* total_docs equals the number of entries of assignments and equals the sum
\* of num_docs over all tables.
C1_Conservation ==
    Initialized =>
        /\ state.total_docs = Cardinality(DOMAIN state.assignments)
        /\ state.total_docs = SumAll(NumDocsOf(state.tables))

\* C2: after initialize_state and after any completed sample_table calls, every
\* table has num_words equal to the sum of its word_counts values, and the
\* num_words of all tables sum to the total length of the seated documents.
C2_WordCountConservation ==
    Initialized =>
        /\ \A t \in DOMAIN state.tables :
              state.tables[t].num_words = SumAll(state.tables[t].word_counts)
        /\ SumAll(NumWordsOf(state.tables))
              = SumAll([d \in DOMAIN state.assignments |-> Len(corpus[d])])

\* C2 witness: a document with words has just joined a table that another
\* document with words sits at.
C2_Witness ==
    /\ Reseated
    /\ ~last.created
    /\ Len(corpus[last.docID]) > 0
    /\ state.tables[last.tableID].num_words > Len(corpus[last.docID])

\* C3: after initialize_state and after every completed sample_table call no
\* table with num_docs = 0 is in state.tables.
C3_NoEmptyTables ==
    \A t \in DOMAIN state.tables : state.tables[t].num_docs # 0

\* C3 witness: a document with zero words, alone at its table, was reseated and
\* its old table is gone.
C3_Witness ==
    /\ Reseated
    /\ Len(corpus[last.docID]) = 0
    /\ last.oldTable # -1
    /\ last.oldTable \notin DOMAIN state.tables

\* C4: nextID never decreases, and no table ID is given to a newly created
\* table twice, also after the earlier table was garbage-collected.
C4_IdMonotonicity ==
    [][/\ state'.nextID >= state.nextID
       /\ \A i, j \in 1..Len(issued') : issued'[i] = issued'[j] => i = j]_vars

\* C4 witness: a table was garbage-collected and the same call created a table.
C4_Witness ==
    /\ Reseated
    /\ last.created
    /\ last.oldTable # -1
    /\ last.oldTable \notin DOMAIN state.tables

\* C5: in a corpus of one document, every sample_table call on it ends with the
\* document at a table with num_docs = 1 and word_counts its own word multiset,
\* and with no other table.
C5_SingletonReseat ==
    (Cardinality(DOMAIN corpus) = 1 /\ Reseated) =>
        LET d == last.docID
            t == state.assignments[d]
        IN  /\ DOMAIN state.tables = {t}
            /\ state.tables[t].num_docs = 1
            /\ state.tables[t].word_counts = Multiset(corpus[d])

\* C5 witness: the only document, one with a repeated word, was reseated twice.
C5_Witness ==
    /\ Cardinality(DOMAIN corpus) = 1
    /\ Reseated
    /\ calls >= 2
    /\ \E w \in Words : Occurrences(corpus[last.docID], w) >= 2

\* C6: initialize_state returns a state whose W is the number of distinct word
\* tokens of the corpus, with every document at its own table of num_docs = 1
\* holding exactly its words, total_docs the number of documents and nextID the
\* number of tables created.
C6_InitializeState ==
    last.op = "initialize_state" =>
        /\ state.W = Cardinality(UNION {{corpus[d][i] : i \in 1..Len(corpus[d])} :
                                           d \in DOMAIN corpus})
        /\ DOMAIN state.assignments = DOMAIN corpus
        /\ \A d \in DOMAIN corpus :
              /\ state.assignments[d] \in DOMAIN state.tables
              /\ state.tables[state.assignments[d]].num_docs = 1
              /\ state.tables[state.assignments[d]].num_words = Len(corpus[d])
              /\ state.tables[state.assignments[d]].word_counts = Multiset(corpus[d])
        /\ \A d, e \in DOMAIN corpus :
              state.assignments[d] = state.assignments[e] => d = e
        /\ Cardinality(DOMAIN state.tables) = Cardinality(DOMAIN corpus)
        /\ state.total_docs = Cardinality(DOMAIN corpus)
        /\ state.nextID = Len(issued)
        /\ state.nextID = Cardinality(DOMAIN state.tables)

\* C6 witness: initialize_state has run on two documents that share a word, one
\* of them repeating it.
C6_Witness ==
    /\ last.op = "initialize_state"
    /\ Cardinality(DOMAIN corpus) = 2
    /\ \E w \in Words :
          /\ Occurrences(corpus[1], w) >= 2
          /\ Occurrences(corpus[2], w) >= 1

\* C7: the total that sample_table passes to the prior is the number of seated
\* documents not counting the document being placed.
C7_PriorTotalExcludesDocument ==
    Reseated =>
        last.total = Cardinality(DOMAIN state.assignments \ {last.docID})

\* C8: on the same candidates, with log-weights the logarithms of the weights,
\* and the same draw, sample and log_sample return the same candidate.
C8_SamplersAgree ==
    trial.ran => trial.linear = trial.log

\* C9: sample_table on a document ID that is not in the corpus throws and
\* leaves the inference state as it was, whether or not the ID is assigned.
C9_AbsentDocumentFailsClean ==
    [][(last'.op = "sample_table" /\ ~last'.present)
          => (last'.threw /\ state' = state)]_vars

\* C9 witness: sample_table has thrown on a document that is assigned to a
\* table and is not in the corpus it was called with.
C9_Witness ==
    /\ last.op = "sample_table"
    /\ ~last.present
    /\ last.threw
    /\ last.docID \in DOMAIN state.assignments

\* C10: initialize_state called with alpha <= 0 or beta <= 0 rejects the call
\* with an error.
C10_RejectsDegenerateHyperparameters ==
    (last.op = "initialize_state" /\ (~RatPositive(alpha) \/ ~RatPositive(beta)))
        => last.threw

\* C11: sample_CRP(1, alpha) returns exactly {0: 1} for every alpha > 0 and
\* every draw.
C11_FirstCustomerOpensTableZero ==
    (crp.ran /\ crp.n = 1) => crp.counts = (0 :> 1)

\* C11 witness: sample_CRP(1, alpha) has returned, with alpha # 1 and a draw
\* other than 0.
C11_Witness ==
    /\ crp.ran
    /\ crp.n = 1
    /\ crp.alpha # RatInt(1)
    /\ crp.randoms[1] # RatInt(0)

\* C20: sample_CRP(n, alpha) returns counts that sum to n, every listed table
\* with a count >= 1 and every table ID a customer index in 0 .. n - 1.
C20_CRPCounts ==
    crp.ran =>
        /\ SumAll(crp.counts) = crp.n
        /\ \A t \in DOMAIN crp.counts : crp.counts[t] >= 1
        /\ DOMAIN crp.counts \subseteq 0..(crp.n - 1)

\* C20 witness: sample_CRP has returned two tables, one with several
\* customers and one that was not opened by the first customer.
C20_Witness ==
    /\ crp.ran
    /\ Cardinality(DOMAIN crp.counts) = 2
    /\ \E t \in DOMAIN crp.counts : crp.counts[t] >= 2
    /\ \E t \in DOMAIN crp.counts : t > 0

\* The documents other than d that st assigns to table t.
OthersAt(st, d, t) ==
    {e \in DOMAIN st.assignments \ {d} : st.assignments[e] = t}

\* The word_counts object of a set of documents: an entry for each word that
\* occurs, holding the number of its occurrences.
WordCountsOf(docs) ==
    LET total(w) == SumAll([e \in docs |-> Occurrences(corpus[e], w)])
    IN  [w \in {v \in Words : total(v) >= 1} |-> total(w)]

\* C12: when sample_table computes the weights for a seated document, the old
\* table's num_docs, num_words and word_counts it reads are those of the other
\* documents of that table, and a table the document sat at alone is not among
\* the candidates.
C12_WeightsExcludeDocument ==
    [][(last'.op = "sample_table" /\ ~last'.threw /\ last'.oldTable # -1) =>
          LET d      == last'.docID
              old    == last'.oldTable
              others == OthersAt(state, d, old)
              cands  == {last'.candidates[i] : i \in 1..Len(last'.candidates)}
          IN  IF others = {}
              THEN old \notin DOMAIN last'.seen /\ old \notin cands
              ELSE /\ old \in DOMAIN last'.seen
                   /\ last'.seen[old].num_docs = Cardinality(others)
                   /\ last'.seen[old].num_words
                         = SumAll([e \in others |-> Len(corpus[e])])
                   /\ last'.seen[old].word_counts = WordCountsOf(others)]_vars

\* C12 witness: a document with words left a table it shared with another
\* document with words and now sits elsewhere.
C12_Witness ==
    /\ Reseated
    /\ last.oldTable \in DOMAIN last.seen
    /\ last.tableID # last.oldTable
    /\ Len(corpus[last.docID]) > 0
    /\ last.seen[last.oldTable].num_words > 0

\* C12 witness of the sole occupant: a document that sat alone was reseated
\* and its old table was not a candidate.
C12_WitnessSole ==
    /\ Reseated
    /\ last.oldTable # -1
    /\ last.oldTable \notin DOMAIN last.seen

\* C13: the candidates of a sample_table call are the tables left after the
\* removal step and one new-table candidate, state.nextID; the document ends
\* assigned to one of them; nextID grows by one when the new-table candidate
\* was chosen and is unchanged otherwise.
C13_CandidateSet ==
    [][(last'.op = "sample_table" /\ ~last'.threw) =>
          LET d       == last'.docID
              old     == last'.oldTable
              vacated == IF old # -1 /\ OthersAt(state, d, old) = {}
                         THEN {old} ELSE {}
              cands   == {last'.candidates[i] : i \in 1..Len(last'.candidates)}
          IN  /\ cands = (DOMAIN state.tables \ vacated) \cup {state.nextID}
              /\ Len(last'.candidates) = Cardinality(cands)
              /\ state.nextID \notin DOMAIN state.tables
              /\ d \in DOMAIN state'.assignments
              /\ state'.assignments[d] \in cands
              /\ state'.assignments[d] = last'.tableID
              /\ state'.nextID = IF last'.tableID = state.nextID
                                 THEN state.nextID + 1 ELSE state.nextID]_vars

\* C13 witness: a call whose removal step deleted the document's table had
\* another table and the new-table candidate to choose from, and chose the
\* new-table candidate.
C13_Witness ==
    /\ Reseated
    /\ last.oldTable # -1
    /\ last.oldTable \notin DOMAIN last.seen
    /\ Len(last.candidates) >= 2
    /\ last.created
    /\ state.nextID = last.tableID + 1

\* C13 witness of the other outcome: the call chose an occupied table.
C13_WitnessOccupied ==
    /\ Reseated
    /\ ~last.created
    /\ last.tableID \in DOMAIN last.seen
    /\ last.tableID # last.oldTable

\* C14: in every reachable state nextID is greater than the ID of every table
\* of state.tables.
C14_NextIDAboveTables ==
    \A t \in DOMAIN state.tables : t < state.nextID

\* C14 witness: a table was created by sample_table after an earlier table was
\* garbage-collected, so the table IDs in use are no longer 0 .. nextID - 1.
C14_Witness ==
    /\ Reseated
    /\ last.created
    /\ \E t \in 0..(state.nextID - 1) : t \notin DOMAIN state.tables
    /\ Cardinality(DOMAIN state.tables) >= 2

\* C15: after initialize_state and after any completed sample_table calls,
\* every assigned document's table ID is a key of state.tables, each table's
\* num_docs is the number of documents assigned to it, and its word_counts has,
\* for every word that occurs in those documents, the number of occurrences,
\* and no entry for any other word.
C15_ExactStatistics ==
    Initialized =>
        /\ \A d \in DOMAIN state.assignments :
              state.assignments[d] \in DOMAIN state.tables
        /\ \A t \in DOMAIN state.tables :
              LET occupants == {d \in DOMAIN state.assignments :
                                   state.assignments[d] = t}
              IN  /\ state.tables[t].num_docs = Cardinality(occupants)
                  /\ state.tables[t].word_counts = WordCountsOf(occupants)

\* C15 witness: a document left a table that another document with words still
\* sits at, taking with it the last occurrence of one of its words there.
C15_Witness ==
    /\ Reseated
    /\ last.oldTable \in DOMAIN state.tables
    /\ last.tableID # last.oldTable
    /\ state.tables[last.oldTable].num_words > 0
    /\ \E i \in 1..Len(corpus[last.docID]) :
          corpus[last.docID][i] \notin DOMAIN state.tables[last.oldTable].word_counts

\* C19: a sample_table call on document d leaves unchanged the assignment of
\* every other document, the num_docs, num_words and word_counts of every
\* table other than d's old and new table, and alpha, beta and W; it adds no
\* assignment but d's and no table but d's new one.
C19_Frame ==
    [][last'.op = "sample_table" =>
          LET d     == last'.docID
              moved == {last'.oldTable, last'.tableID}
          IN  /\ DOMAIN state'.assignments \subseteq DOMAIN state.assignments \cup {d}
              /\ \A e \in DOMAIN state.assignments \ {d} :
                    /\ e \in DOMAIN state'.assignments
                    /\ state'.assignments[e] = state.assignments[e]
              /\ DOMAIN state'.tables \subseteq DOMAIN state.tables \cup moved
              /\ \A t \in DOMAIN state.tables \ moved :
                    /\ t \in DOMAIN state'.tables
                    /\ state'.tables[t] = state.tables[t]
              /\ state'.alpha = state.alpha
              /\ state'.beta = state.beta
              /\ state'.W = state.W]_vars

\* C19 witness: a document moved from a table it left empty to a new table
\* while another document stayed at a third table.
C19_Witness ==
    /\ Reseated
    /\ last.oldTable # -1
    /\ last.tableID # last.oldTable
    /\ \E e \in DOMAIN state.assignments :
          /\ e # last.docID
          /\ state.assignments[e] \notin {last.oldTable, last.tableID}
          /\ state.tables[state.assignments[e]].num_words > 0

\* The ratio the claim gives for position j (0-based): the table's count of
\* word_j plus the occurrences of word_j before position j, plus beta, over
\* j + word_total + W * beta.
PositionRatio(j) ==
    LET w     == lik.words[j + 1]
        count == IF w \in DOMAIN lik.word_counts THEN lik.word_counts[w] ELSE 0
        prior == Cardinality({k \in 1..j : lik.words[k] = w})
    IN  RatDiv(RatAdd(RatInt(count + prior), lik.beta),
               RatAdd(RatInt(j + lik.word_total), RatMul(RatInt(lik.W), lik.beta)))

\* The product of the ratios of positions 0 .. n - 1.
RECURSIVE RatioProduct(_)
RatioProduct(n) ==
    IF n = 0 THEN RatInt(1) ELSE RatMul(RatioProduct(n - 1), PositionRatio(n - 1))

\* The sum, in millionths, of the logarithms of the ratios of positions 0 .. n - 1.
RECURSIVE RatioLogSum(_)
RatioLogSum(n) ==
    IF n = 0 THEN 0 ELSE RatioLogSum(n - 1) + MathLog(PositionRatio(n - 1)).micro

\* C16: prob_of_words_given_table returns the product over the positions j of
\* (table count of word_j + occurrences of word_j before j + beta)
\* / (j + word_total + W * beta), 1 for an empty document, and
\* log_prob_words_given_table returns the sum of the logarithms of the same
\* ratios.
C16_WordLikelihood ==
    lik.ran =>
        /\ lik.prob = RatioProduct(Len(lik.words))
        /\ Len(lik.words) = 0 => lik.prob = RatInt(1)
        /\ lik.log_prob.of = RatioProduct(Len(lik.words))
        /\ lik.log_prob.micro = RatioLogSum(Len(lik.words))

\* C16 witness: both likelihoods have run on a document that repeats a word
\* the table already counts and holds another word the table does not count.
C16_Witness ==
    /\ lik.ran
    /\ \E i, j, k \in 1..Len(lik.words) :
          /\ i < j
          /\ lik.words[i] = lik.words[j]
          /\ lik.words[i] \in DOMAIN lik.word_counts
          /\ lik.words[k] \notin DOMAIN lik.word_counts
    /\ lik.word_total > 0

\* The candidate the claim names for weights w and draw u: the lowest ID whose
\* cumulative weight, over the IDs up to it, exceeds u * sum(w); the highest
\* ID when there is none.
FirstToExceed(w, u) ==
    LET Cum(c)  == SumOf([k \in DOMAIN w |-> w[k].n], {k \in DOMAIN w : k <= c})
        total   == SumOf([k \in DOMAIN w |-> w[k].n], DOMAIN w)
        exceeds == {c \in DOMAIN w : Cum(c) * u.d > u.n * total}
    IN  IF exceeds # {}
        THEN CHOOSE c \in exceeds : \A e \in exceeds : c <= e
        ELSE CHOOSE c \in DOMAIN w : \A e \in DOMAIN w : e <= c

\* Weights whose numerators are over the common denominator MaxWeight + 1.
OverCommonDenominator(w) ==
    [k \in DOMAIN w |-> [n |-> w[k].n * ((MaxWeight + 1) \div w[k].d),
                         d |-> MaxWeight + 1]]

\* C17: sample returns the first candidate, in ascending order of ID, whose
\* cumulative weight strictly exceeds u * sum(w), and the last candidate when
\* none does, as with all weights zero; the last candidate of the linear
\* sample_table is the new-table candidate nextID.
C17_LinearSampler ==
    [][/\ (trial'.ran /\ ~trial.ran) =>
             /\ trial'.linear
                   = FirstToExceed(OverCommonDenominator(trial.probs), trial.random)
             /\ (\A k \in DOMAIN trial.probs : trial.probs[k] = RatInt(0))
                   => \A k \in DOMAIN trial.probs : k <= trial'.linear
       /\ (last'.op = "module.sample_table" /\ ~last'.threw) =>
             /\ last'.candidates[Len(last'.candidates)] = state.nextID
             /\ \A i \in 1..Len(last'.candidates) :
                   last'.candidates[i] <= state.nextID]_vars

\* C17 witness: sample has returned the last of three candidates whose weights
\* are all zero, on a draw other than 0.
C17_Witness ==
    /\ trial.ran
    /\ DOMAIN trial.probs = 0..2
    /\ \A k \in DOMAIN trial.probs : trial.probs[k] = RatInt(0)
    /\ trial.random # RatInt(0)
    /\ trial.linear = 2

\* C17 witness of the strict comparison: the first candidate has weight zero,
\* the draw is 0, and sample has returned a later candidate.
C17_WitnessStrict ==
    /\ trial.ran
    /\ trial.probs[0] = RatInt(0)
    /\ trial.random = RatInt(0)
    /\ trial.linear > 0
    /\ trial.probs[trial.linear] # RatInt(0)

\* C17 witness of the linear sample_table: it has run with an occupied table
\* and the new table as candidates, after the document's old table was deleted,
\* and seated the document at the occupied table.
C17_WitnessSampleTable ==
    /\ last.op = "module.sample_table"
    /\ ~last.threw
    /\ Len(last.candidates) = 2
    /\ last.oldTable \notin DOMAIN last.seen
    /\ last.oldTable # -1
    /\ ~last.created

\* C18: in log_sample, for every candidate list with at least two distinct
\* log-weights, max is the greatest log-weight of the list: no candidate's
\* log-weight is above it.
C18_MaxIsGreatest ==
    (/\ trial.ran
     /\ \E i, j \in 1..Len(trial.logs) : trial.logs[i][1] # trial.logs[j][1])
        => \A i \in 1..Len(trial.logs) :
              ~RatLess(trial.max.of, trial.logs[i][1].of)

====
